---- MODULE Spec2Model ----
(***************************************************************************)
(* Plagiarism detection of the grading dashboard (src/utils.py): the       *)
(* submission store under plagiarism_data/, save_results, the normaliser   *)
(* calculate_hash, the bucketing prefilter_codes, the scorer               *)
(* calculate_code_similarity (difflib.SequenceMatcher) and the run         *)
(* analyze_plagiarism_for_exam.                                            *)
(*                                                                         *)
(* A text (file content, file name) is a sequence of one-character         *)
(* strings.                                                                *)
(***************************************************************************)
EXTENDS Integers, Sequences, FiniteSets, TLC

VARIABLES cfg, fs, results, submitted, saver, run, history, counts,
          simIn, simOut, hashIn, hashOut

vars ==
    <<cfg, fs, results, submitted, saver, run, history, counts,
      simIn, simOut, hashIn, hashOut>>

(***************************************************************************)
(* Bounds of the model.                                                    *)
(***************************************************************************)
MaxSaves == 2
MaxRuns == 1
RepeatSaves == 2
RepeatRuns == 2
BothSaves == 3
ScenSaves == 2
MaxSimLen == 3
ForeignSaves == 2
ClusterSaves == 1
ConcSaves == 1
ConcRuns == 2
ForeignFiles == 1
AppSaves == 2
MaxHashLen == 3

(***************************************************************************)
(* Characters and strings.                                                 *)
(***************************************************************************)
Letters == {"a", "b", "c", "d", "e", "f", "g", "h", "i", "j", "k", "l", "m",
            "n", "o", "p", "q", "r", "s", "t", "u", "v", "w", "x", "y", "z",
            "A", "B", "C", "D", "E", "F", "G", "H", "I", "J", "K", "L", "M",
            "N", "O", "P", "Q", "R", "S", "T", "U", "V", "W", "X", "Y", "Z"}

Digits == {"0", "1", "2", "3", "4", "5", "6", "7", "8", "9"}

\* \s of the re module on the characters the texts are written in
IsSpace(ch) == ch \in {" ", "\t", "\n", "\r", "\f"}

\* [a-zA-Z_]
IsIdentStart(ch) == ch \in Letters \cup {"_"}

\* the tail class written [a-zA-Z_], without the digits
IsIdentCharNoDigit(ch) == ch \in Letters \cup {"_"}

\* [a-zA-Z0-9_]
IsIdentChar(ch) == ch \in Letters \cup Digits \cup {"_"}

\* s[from:] (from is a 1-based position)
Drop(s, from) == SubSeq(s, from, Len(s))

\* s.startswith(pat, p - 1) for the 1-based position p
MatchAt(s, p, pat) ==
    /\ p + Len(pat) - 1 <= Len(s)
    /\ \A k \in 1..Len(pat) : s[p + k - 1] = pat[k]

\* str.endswith
EndsWith(s, suf) ==
    /\ Len(suf) <= Len(s)
    /\ MatchAt(s, Len(s) - Len(suf) + 1, suf)

\* str.replace(pat, ""): the non-overlapping occurrences of pat, found
\* left to right, are removed
RECURSIVE RemoveAll(_, _)
RemoveAll(s, pat) ==
    IF s = <<>> THEN <<>>
    ELSE IF MatchAt(s, 1, pat) THEN RemoveAll(Drop(s, Len(pat) + 1), pat)
    ELSE <<s[1]>> \o RemoveAll(Tail(s), pat)

(***************************************************************************)
(* calculate_hash: the regular expressions of the normaliser.             *)
(***************************************************************************)
\* the end positions q (of the first character of close) at which the lazy
\* pattern  open.*?close  can end when it starts at position 1 of s
SpanEnds(s, open, close, dotall) ==
    {q \in (Len(open) + 1)..Len(s) :
        /\ MatchAt(s, q, close)
        /\ dotall \/ \A k \in (Len(open) + 1)..(q - 1) : s[k] # "\n"}

Least(S) == CHOOSE x \in S : \A y \in S : x <= y

\* re.sub(open + '.*?' + close, '', s), with flags=re.DOTALL when dotall
RECURSIVE StripSpans(_, _, _, _)
StripSpans(s, open, close, dotall) ==
    IF s = <<>> THEN <<>>
    ELSE IF MatchAt(s, 1, open) /\ SpanEnds(s, open, close, dotall) # {}
    THEN StripSpans(Drop(s, Least(SpanEnds(s, open, close, dotall)) + Len(close)),
                    open, close, dotall)
    ELSE <<s[1]>> \o StripSpans(Tail(s), open, close, dotall)

\* re.sub(r'\s+', '', s)
StripSpace(s) == SelectSeq(s, LAMBDA ch : ~IsSpace(ch))

\* the length of the match of [a-zA-Z0-9_]* at the head of s
RECURSIVE IdentTail(_)
IdentTail(s) ==
    IF s # <<>> /\ IsIdentChar(s[1]) THEN 1 + IdentTail(Tail(s)) ELSE 0

Placeholder == <<"v", "a", "r">>

\* the substitution with the pattern [a-zA-Z_], without the tail
RECURSIVE ReplaceIdentsNoTail(_)
ReplaceIdentsNoTail(s) ==
    IF s = <<>> THEN <<>>
    ELSE IF IsIdentStart(s[1])
    THEN Placeholder \o ReplaceIdentsNoTail(Tail(s))
    ELSE <<s[1]>> \o ReplaceIdentsNoTail(Tail(s))

\* the normaliser without the substitution of the identifiers
ReplaceIdentsSkipped(s) == s

\* re.sub(r'[a-zA-Z_][a-zA-Z0-9_]*', 'var', s)
RECURSIVE ReplaceIdents(_)
ReplaceIdents(s) ==
    IF s = <<>> THEN <<>>
    ELSE IF IsIdentStart(s[1])
    THEN Placeholder \o ReplaceIdents(Drop(s, IdentTail(Tail(s)) + 2))
    ELSE <<s[1]>> \o ReplaceIdents(Tail(s))

\* the string calculate_hash feeds to md5
Normalize(code) ==
    LET n1 == StripSpans(code, <<"#">>, <<"\n">>, FALSE)
        n2 == StripSpans(n1, <<"/", "/">>, <<"\n">>, FALSE)
        n3 == StripSpans(n2, <<"/", "*">>, <<"*", "/">>, TRUE)
        n4 == StripSpans(n3, <<"'", "'", "'">>, <<"'", "'", "'">>, TRUE)
        n5 == StripSpans(n4, <<"\"", "\"", "\"">>, <<"\"", "\"", "\"">>, TRUE)
        n6 == StripSpace(n5)
    IN  ReplaceIdents(n6)

\* hashlib.md5(...).hexdigest(): a function of the digested string, free of
\* collisions on the texts of the model
Md5(s) == [md5 |-> s]

calculate_hash(code) == Md5(Normalize(code))

(***************************************************************************)
(* calculate_code_similarity: difflib.SequenceMatcher(None, a, b).ratio()  *)
(* times 100.  Positions are the 0-based positions of difflib; a[i] of the *)
(* library is a[i + 1] here.                                               *)
(***************************************************************************)
\* autojunk applies to a second sequence of at least this many elements
AutoJunkMinLen == 200

Count(s, ch) == Cardinality({k \in 1..Len(s) : s[k] = ch})

\* __chain_b: the elements autojunk drops from b2j as popular
Popular(b, ch) ==
    /\ Len(b) >= AutoJunkMinLen
    /\ Count(b, ch) > (Len(b) \div 100) + 1

\* j2len[j] after row i: the length of the run of equal elements, all of
\* them in b2j, that ends at (i, j) and starts no earlier than (alo, blo)
RECURSIVE RunEnding(_, _, _, _, _, _)
RunEnding(a, b, i, j, alo, blo) ==
    IF i < alo \/ j < blo THEN 0
    ELSE IF a[i + 1] # b[j + 1] \/ Popular(b, b[j + 1]) THEN 0
    ELSE 1 + RunEnding(a, b, i - 1, j - 1, alo, blo)

\* the two loops of find_longest_match over i and j: bestsize ends as the
\* greatest j2len value, and (besti, bestj) as the block of that size met
\* first, which is the one that starts earliest in a and, among those, the
\* one that starts earliest in b; with no equal element the block stays
\* (alo, blo, 0)
LongestRun(a, b, alo, ahi, blo, bhi) ==
    LET ends == {[i |-> i, j |-> j, size |-> RunEnding(a, b, i, j, alo, blo)] :
                    i \in alo..(ahi - 1), j \in blo..(bhi - 1)}
        sizes == {e.size : e \in ends} \cup {0}
        bestsize == CHOOSE k \in sizes : \A l \in sizes : l <= k
        cands == {e \in ends : e.size = bestsize}
        first == CHOOSE e \in cands :
                    \A o \in cands : e.i < o.i \/ (e.i = o.i /\ e.j <= o.j)
    IN  IF bestsize = 0 THEN [i |-> alo, j |-> blo, size |-> 0]
        ELSE [i |-> first.i - bestsize + 1, j |-> first.j - bestsize + 1,
              size |-> bestsize]

\* the first extension loop: equal elements before the block
RECURSIVE ExtendBack(_, _, _, _, _)
ExtendBack(a, b, m, alo, blo) ==
    IF m.i > alo /\ m.j > blo /\ a[m.i] = b[m.j]
    THEN ExtendBack(a, b, [i |-> m.i - 1, j |-> m.j - 1, size |-> m.size + 1],
                    alo, blo)
    ELSE m

\* the second extension loop: equal elements after the block
RECURSIVE ExtendFwd(_, _, _, _, _)
ExtendFwd(a, b, m, ahi, bhi) ==
    IF /\ m.i + m.size < ahi
       /\ m.j + m.size < bhi
       /\ a[m.i + m.size + 1] = b[m.j + m.size + 1]
    THEN ExtendFwd(a, b, [m EXCEPT !.size = m.size + 1], ahi, bhi)
    ELSE m

\* SequenceMatcher.find_longest_match(alo, ahi, blo, bhi); isjunk is None,
\* so the two junk loops at its end never extend the block
find_longest_match(a, b, alo, ahi, blo, bhi) ==
    LET core == LongestRun(a, b, alo, ahi, blo, bhi)
    IN  ExtendFwd(a, b, ExtendBack(a, b, core, alo, blo), ahi, bhi)

\* the recursion that goes on to the left of the block only
RECURSIVE MatchTotalLeftOnly(_, _, _, _, _, _)
MatchTotalLeftOnly(a, b, alo, ahi, blo, bhi) ==
    LET m == find_longest_match(a, b, alo, ahi, blo, bhi)
    IN  IF m.size = 0 THEN 0
        ELSE m.size
             + (IF alo < m.i /\ blo < m.j
                THEN MatchTotalLeftOnly(a, b, alo, m.i, blo, m.j) ELSE 0)

\* the sum of the sizes of get_matching_blocks() on a[alo:ahi], b[blo:bhi]
RECURSIVE MatchTotal(_, _, _, _, _, _)
MatchTotal(a, b, alo, ahi, blo, bhi) ==
    LET m == find_longest_match(a, b, alo, ahi, blo, bhi)
    IN  IF m.size = 0 THEN 0
        ELSE m.size
             + (IF alo < m.i /\ blo < m.j
                THEN MatchTotal(a, b, alo, m.i, blo, m.j) ELSE 0)
             + (IF m.i + m.size < ahi /\ m.j + m.size < bhi
                THEN MatchTotal(a, b, m.i + m.size, ahi, m.j + m.size, bhi)
                ELSE 0)

RECURSIVE Gcd(_, _)
Gcd(x, y) == IF y = 0 THEN x ELSE Gcd(y, x % y)

\* a score is the exact quotient 200 * matches / length in lowest terms.
\* The float of the code, (2.0 * matches / length) * 100, is a function of
\* that quotient which is one-to-one and monotonic at the lengths of a
\* submission, and 0.8 * 100 is the float 80.0: two scores are equal
\* floats exactly when they are equal quotients, and a float exceeds 80
\* exactly when the quotient does.
Quot(n, d) == [num |-> n \div Gcd(n, d), den |-> d \div Gcd(n, d)]

\* the ratio with 0.0 for two empty sequences
calculate_code_similarityEmptyZero(code1, code2) ==
    LET length == Len(code1) + Len(code2)
    IN  IF length = 0 THEN Quot(0, 1)
        ELSE Quot(200 * MatchTotal(code1, code2, 0, Len(code1), 0, Len(code2)),
                  length)

\* SequenceMatcher.ratio() * 100; _calculate_ratio returns 1.0 when both
\* sequences are empty
calculate_code_similarity(code1, code2) ==
    LET length == Len(code1) + Len(code2)
    IN  IF length = 0 THEN Quot(100, 1)
        ELSE Quot(200 * MatchTotal(code1, code2, 0, Len(code1), 0, Len(code2)),
                  length)

\* the threshold test written with >=
AboveThresholdGeq(similarity) == similarity.num >= 80 * similarity.den

\* similarity > 80
AboveThreshold(similarity) == similarity.num > 80 * similarity.den

(***************************************************************************)
(* The submission store and the processes.                                 *)
(*                                                                         *)
(* cfg      the population of a behaviour: the code texts, the students,   *)
(*          the languages, the assignments (exam names), the sessions that *)
(*          run the detection and the numbers of calls; fixed by the       *)
(*          initial state                                                  *)
(* fs       plagiarism_data/: for every exam name whether its directory    *)
(*          exists and its files, in the order os.listdir yields them      *)
(* results  the result files save_results has written                      *)
(* submitted  for every exam and every (student id, student name,          *)
(*          extension), the code of the most recent call of save_results   *)
(*          that carried code                                              *)
(* saver    the session that is inside save_results                        *)
(* run      the frame of analyze_plagiarism_for_exam of every session      *)
(* history  the completed runs, oldest first                               *)
(* counts   the calls made so far                                          *)
(***************************************************************************)
Exams == {"e1", "e2"}

Runners == {"r1", "r2"}

Languages == {"c", "cpp", "python"}

\* the second component of the returned pair: None, the message of line 90
\* (no submission record found for this exam) and the message of line 95
\* (too few submissions for a plagiarism analysis)
ErrNone == "None"
ErrNotFound == "no submission record found"
ErrInsufficient == "insufficient submissions"

DotC == <<".", "c">>
DotPy == <<".", "p", "y">>

\* line 196: ext = "py" if language == "python" else "c"
Ext(language) == IF language = "python" THEN "py" ELSE "c"

\* f"{student_id}_{student_name}.{ext}"
PlagiarismFile(st, language) ==
    st.id \o <<"_">> \o st.name \o (IF language = "python" THEN DotPy ELSE DotC)

\* the call save_results(student_id, student_name, ..., code_content,
\* language) with a code_content that is not empty is the most recent one
\* of its student, exam and extension
Submit(calls, st, exam, ext, code) ==
    {c \in calls : ~(c.student = st /\ c.exam = exam /\ c.ext = ext)}
        \cup {[student |-> st, exam |-> exam, ext |-> ext, code |-> code]}

\* student.replace('.c', '').replace('.py', '')
StripExt(file) == RemoveAll(RemoveAll(file, DotC), DotPy)

Names(files) == [k \in 1..Len(files) |-> files[k].name]

HasFile(files, name) == \E k \in 1..Len(files) : files[k].name = name

\* the content of the file called name
TextOf(files, name) ==
    files[CHOOSE k \in 1..Len(files) : files[k].name = name].text

\* the bytes of a file: Utf8 bytes decode as UTF-8; Gbk bytes do not
\* decode as UTF-8 and decode as GBK; Binary bytes decode as neither.  text
\* is the string the decoding gives, when there is one
Utf8 == "utf8"
Gbk == "gbk"
Binary == "binary"

\* the directory entry called name
FileOf(files, name) ==
    files[CHOOSE k \in 1..Len(files) : files[k].name = name]

\* the file called name holds text, written with encoding='utf-8'
WriteFile(files, name, text) ==
    [k \in 1..Len(files) |->
        IF files[k].name = name
        THEN [files[k] EXCEPT !.text = text, !.enc = Utf8]
        ELSE files[k]]

\* the file called name is replaced by entry
PutFile(files, entry) ==
    [k \in 1..Len(files) |->
        IF files[k].name = entry.name THEN entry ELSE files[k]]

\* lines 100-109: open(..., encoding='utf-8') and read; on
\* UnicodeDecodeError open(..., encoding='gbk') and read; when that fails
\* too the failure is printed and the file is left out of codes
Decode(file) ==
    IF file.enc \in {Utf8, Gbk} THEN [ok |-> TRUE, text |-> file.text]
    ELSE [ok |-> FALSE, text |-> <<>>]

\* a new directory entry appears at a place of the file system's choosing
InsertAt(files, pos, entry) ==
    SubSeq(files, 1, pos) \o <<entry>> \o SubSeq(files, pos + 1, Len(files))

\* [f for f in os.listdir(plagiarism_dir) if f.endswith('.c') or
\*  f.endswith('.py')]
ListCodeFiles(dir) ==
    SelectSeq(Names(dir.files),
              LAMBDA f : EndsWith(f, DotC) \/ EndsWith(f, DotPy))

\* the exception a call ends with
ExcNone == "None"
UnicodeDecodeError == "UnicodeDecodeError"

IdleSaver == [pc |-> "idle", exam |-> "e1", file |-> <<>>, code |-> <<>>]

NoRet == [none |-> TRUE, pairs |-> <<>>, error |-> ErrNone]

\* the report of generate_similarity_report when it returns None for it
NoReport == [exam_name |-> "", high_similarity_pairs |-> <<>>, total_pairs |-> 0]

NoOut == [none |-> TRUE, report |-> NoReport, error |-> ErrNone]

IdleRun ==
    [pc |-> "idle", exam |-> "e1", code_files |-> <<>>, codes |-> <<>>,
     idx |-> 0, hash_groups |-> <<>>, pairs |-> <<>>, compared |-> <<>>,
     ret |-> NoRet, out |-> NoOut, exc |-> ExcNone]

NoSim == [done |-> FALSE, score |-> [num |-> 0, den |-> 1]]

NoHash == [done |-> FALSE, hash |-> Md5(<<>>), renamed |-> Md5(<<>>)]

InitStore ==
    /\ fs = [e \in Exams |-> [exists |-> FALSE, files |-> <<>>]]
    /\ results = {}
    /\ submitted = {}
    /\ saver = IdleSaver
    /\ run = [r \in Runners |-> IdleRun]
    /\ history = <<>>
    /\ counts = [saves |-> 0, runs |-> 0, foreign |-> 0]

(***************************************************************************)
(* save_results                                                            *)
(***************************************************************************)
\* lines 151-202: the result files are written; when code_content is not
\* empty the code branch is entered and os.makedirs(plagiarism_dir,
\* exist_ok=True) makes the directory of the exam
SaveResults(st, exam, code, language) ==
    /\ saver.pc = "idle"
    /\ counts.saves < cfg.maxSaves
    /\ counts' = [counts EXCEPT !.saves = @ + 1]
    /\ results' = results \cup {<<st, exam>>}
    /\ IF code # <<>>
       THEN /\ submitted' = Submit(submitted, st, exam, Ext(language), code)
            /\ saver' = [pc |-> "open", exam |-> exam,
                         file |-> PlagiarismFile(st, language), code |-> code]
            /\ fs' = [fs EXCEPT ![exam].exists = TRUE]
       ELSE /\ saver' = IdleSaver
            /\ UNCHANGED <<fs, submitted>>
    /\ UNCHANGED <<cfg, run, history, simIn, simOut, hashIn, hashOut>>

\* open(plagiarism_file, 'w'): the file is created, or truncated when it
\* is there
SaveOpen ==
    /\ saver.pc = "open"
    /\ LET files == fs[saver.exam].files
       IN  IF HasFile(files, saver.file)
           THEN fs' = [fs EXCEPT ![saver.exam].files =
                            WriteFile(files, saver.file, <<>>)]
           ELSE \E pos \in 0..Len(files) :
                    fs' = [fs EXCEPT ![saver.exam].files =
                            InsertAt(files, pos,
                                     [name |-> saver.file, text |-> <<>>,
                                      enc |-> Utf8])]
    /\ saver' = [saver EXCEPT !.pc = "write"]
    /\ UNCHANGED <<cfg, results, submitted, run, history, counts, simIn, simOut, hashIn, hashOut>>

\* f.write(code_content) and the close at the end of the with block
SaveWrite ==
    /\ saver.pc = "write"
    /\ fs' = [fs EXCEPT ![saver.exam].files =
                    WriteFile(fs[saver.exam].files, saver.file, saver.code)]
    /\ saver' = IdleSaver
    /\ UNCHANGED <<cfg, results, submitted, run, history, counts, simIn, simOut, hashIn, hashOut>>

(***************************************************************************)
(* prefilter_codes and analyze_plagiarism_for_exam                         *)
(***************************************************************************)
\* lines 78-81: hash_map after the first n entries of codes, as the
\* sequence of its items [hash, group] in the order the keys were inserted;
\* codes is the dict in insertion order, a sequence of [name, text]
RECURSIVE hash_map(_, _)
hash_map(codes, n) ==
    IF n = 0 THEN <<>>
    ELSE LET before == hash_map(codes, n - 1)
             student == codes[n].name
             code_hash == calculate_hash(codes[n].text)
             at == {k \in 1..Len(before) : before[k].hash = code_hash}
         IN  IF at = {}
             THEN Append(before, [hash |-> code_hash, group |-> <<student>>])
             ELSE [before EXCEPT ![CHOOSE k \in at : TRUE].group =
                                        Append(@, student)]

\* hash_map.values() in order
RECURSIVE Groups(_)
Groups(items) ==
    IF items = <<>> THEN <<>> ELSE <<Head(items).group>> \o Groups(Tail(items))

\* prefilter_codes that keeps the groups of more than two
prefilter_codesOverTwo(codes) ==
    SelectSeq(Groups(hash_map(codes, Len(codes))), LAMBDA group : Len(group) > 2)

\* no prefilter: all the submissions in one group
prefilter_codesAll(codes) ==
    IF Len(codes) > 1 THEN <<[k \in 1..Len(codes) |-> codes[k].name]>> ELSE <<>>

\* line 83: [group for group in hash_map.values() if len(group) > 1]
prefilter_codes(codes) ==
    SelectSeq(Groups(hash_map(codes, Len(codes))), LAMBDA group : Len(group) > 1)

\* lines 118-120 for one group: the iterations of the two loops from
\* (i, j) on, in loop order (1-based)
RECURSIVE CompareFrom(_, _, _, _)
CompareFrom(codes, group, i, j) ==
    IF i > Len(group) THEN <<>>
    ELSE IF j > Len(group) THEN CompareFrom(codes, group, i + 1, i + 2)
    ELSE LET student1 == group[i]
             student2 == group[j]
         IN  <<[file1 |-> student1, file2 |-> student2,
                similarity |-> calculate_code_similarity(
                                   TextOf(codes, student1),
                                   TextOf(codes, student2))]>>
             \o CompareFrom(codes, group, i, j + 1)

\* the loops with the inner one written range(i, len(group)), which
\* compares every submission of the group with itself too
RECURSIVE CompareFromSelf(_, _, _, _)
CompareFromSelf(codes, group, i, j) ==
    IF i > Len(group) THEN <<>>
    ELSE IF j > Len(group) THEN CompareFromSelf(codes, group, i + 1, i + 1)
    ELSE <<[file1 |-> group[i], file2 |-> group[j],
            similarity |-> calculate_code_similarity(
                               TextOf(codes, group[i]),
                               TextOf(codes, group[j]))]>>
         \o CompareFromSelf(codes, group, i, j + 1)

CompareGroupWithSelf(codes, group) == CompareFromSelf(codes, group, 1, 1)

\* the loops with student1 = group[j] and student2 = group[i]
CompareGroupSwapped(codes, group) ==
    LET compared == CompareFrom(codes, group, 1, 2)
    IN  [k \in 1..Len(compared) |->
            [file1 |-> compared[k].file2, file2 |-> compared[k].file1,
             similarity |-> compared[k].similarity]]

CompareGroup(codes, group) == CompareFrom(codes, group, 1, 2)

\* lines 115-120: the comparisons of all groups
RECURSIVE CompareAll(_, _)
CompareAll(codes, groups) ==
    IF groups = <<>> THEN <<>>
    ELSE CompareGroup(codes, Head(groups)) \o CompareAll(codes, Tail(groups))

\* lines 122-127: the record appended for a comparison above the
\* threshold; file1 and file2 annotate it with the keys it was made from
PairRecord(c) ==
    [student1 |-> StripExt(c.file1), student2 |-> StripExt(c.file2),
     similarity |-> c.similarity, file1 |-> c.file1, file2 |-> c.file2]

RECURSIVE HighSimilarity(_)
HighSimilarity(compared) ==
    IF compared = <<>> THEN <<>>
    ELSE (IF AboveThreshold(Head(compared).similarity)
          THEN <<PairRecord(Head(compared))>> ELSE <<>>)
         \o HighSimilarity(Tail(compared))

\* the report built whatever the analysis returned, the error passed along
generate_similarity_reportAlways(exam_name, ret) ==
    [none |-> FALSE,
     report |-> [exam_name |-> exam_name,
                 high_similarity_pairs |-> ret.pairs,
                 total_pairs |-> Len(ret.pairs)],
     error |-> ret.error]

\* lines 134-145: generate_similarity_report after its call of
\* analyze_plagiarism_for_exam has returned ret; the error strings are
\* not empty, so "if error" is taken exactly when there is an error
generate_similarity_report(exam_name, ret) ==
    IF ret.error # ErrNone
    THEN [none |-> TRUE, report |-> NoReport, error |-> ret.error]
    ELSE [none |-> FALSE,
          report |-> [exam_name |-> exam_name,
                      high_similarity_pairs |-> ret.pairs,
                      total_pairs |-> Len(ret.pairs)],
          error |-> ErrNone]

\* what a completed run leaves in history
Completed(r, ret) ==
    [exam |-> r.exam,
     code_files |-> r.code_files,
     codes |-> r.codes,
     ret |-> ret,
     out |-> generate_similarity_report(r.exam, ret),
     exc |-> ExcNone]

\* the count test written with < 1
TooFewBelowOne(code_files) == Len(code_files) < 1

\* line 94: len(code_files) < 2
TooFew(code_files) == Len(code_files) < 2

\* lines 88-95: the directory test, the listing and the count test
Start(r, exam) ==
    /\ run[r].pc \in {"idle", "done"}
    /\ counts.runs < cfg.maxRuns
    /\ counts' = [counts EXCEPT !.runs = @ + 1]
    /\ IF ~fs[exam].exists
       THEN LET ret == [none |-> TRUE, pairs |-> <<>>, error |-> ErrNotFound]
                fin == [run[r] EXCEPT !.pc = "done", !.exam = exam,
                                      !.code_files = <<>>, !.codes = <<>>,
                                      !.idx = 0, !.ret = ret,
                                      !.out = generate_similarity_report(exam, ret)]
            IN  /\ run' = [run EXCEPT ![r] = fin]
                /\ history' = Append(history, Completed(fin, ret))
       ELSE LET code_files == ListCodeFiles(fs[exam])
            IN  IF TooFew(code_files)
                THEN LET ret == [none |-> TRUE, pairs |-> <<>>,
                                 error |-> ErrInsufficient]
                         fin == [run[r] EXCEPT !.pc = "done", !.exam = exam,
                                               !.code_files = code_files,
                                               !.codes = <<>>, !.idx = 0,
                                               !.ret = ret,
                                               !.out = generate_similarity_report(exam, ret)]
                     IN  /\ run' = [run EXCEPT ![r] = fin]
                         /\ history' = Append(history, Completed(fin, ret))
                ELSE /\ run' = [run EXCEPT ![r] =
                                    [@ EXCEPT !.pc = "read", !.exam = exam,
                                              !.code_files = code_files,
                                              !.codes = <<>>, !.idx = 0,
                                              !.ret = NoRet, !.out = NoOut]]
                     /\ UNCHANGED history
    /\ UNCHANGED <<cfg, fs, results, submitted, saver, simIn, simOut, hashIn, hashOut>>

\* the read with the file opened in mode 'w+', which empties it
ReadFileTruncating(r) ==
    /\ run[r].pc = "read"
    /\ LET file == run[r].code_files[run[r].idx + 1]
       IN  /\ run' = [run EXCEPT ![r] =
                    [@ EXCEPT !.codes = Append(@, [name |-> file, text |-> <<>>]),
                              !.idx = run[r].idx + 1,
                              !.pc = IF run[r].idx + 1 = Len(run[r].code_files)
                                     THEN "detect" ELSE "read"]]
           /\ fs' = [fs EXCEPT ![run[r].exam].files =
                        WriteFile(@, file, <<>>)]
    /\ UNCHANGED <<cfg, results, submitted, saver, history, counts, simIn, simOut, hashIn, hashOut>>

\* lines 98-109 for the next file of code_files: the file is decoded
\* and enters codes, or is left out when it cannot be decoded
ReadFile(r) ==
    /\ run[r].pc = "read"
    /\ LET file == run[r].code_files[run[r].idx + 1]
           read == Decode(FileOf(fs[run[r].exam].files, file))
           codes == IF read.ok
                    THEN Append(run[r].codes, [name |-> file, text |-> read.text])
                    ELSE run[r].codes
       IN  run' = [run EXCEPT ![r] =
                    [@ EXCEPT !.codes = codes,
                              !.idx = run[r].idx + 1,
                              !.pc = IF run[r].idx + 1 = Len(run[r].code_files)
                                     THEN "detect" ELSE "read"]]
    /\ UNCHANGED <<cfg, fs, results, submitted, saver, history, counts, simIn, simOut, hashIn, hashOut>>

\* the run with a pair list that outlives the call (a list made once, not
\* per call)
DetectStale(r) ==
    /\ run[r].pc = "detect"
    /\ LET hash_groups == prefilter_codes(run[r].codes)
           high_similarity_pairs == run[r].pairs
           compared == CompareAll(run[r].codes, hash_groups)
           pairs == high_similarity_pairs \o HighSimilarity(compared)
           ret == [none |-> FALSE, pairs |-> pairs, error |-> ErrNone]
       IN  /\ run' = [run EXCEPT ![r] =
                        [@ EXCEPT !.hash_groups = hash_groups,
                                  !.compared = compared,
                                  !.pairs = pairs,
                                  !.ret = ret,
                                  !.out = generate_similarity_report(run[r].exam, ret),
                                  !.pc = "done"]]
           /\ history' = Append(history, Completed(run[r], ret))
    /\ UNCHANGED <<cfg, fs, results, submitted, saver, counts, simIn, simOut, hashIn, hashOut>>

\* the run with one pair list for all the sessions (a module-level list
\* that every call appends to)
DetectShared(r) ==
    /\ run[r].pc = "detect"
    /\ LET hash_groups == prefilter_codes(run[r].codes)
           high_similarity_pairs ==
               IF history = <<>> THEN <<>> ELSE history[Len(history)].ret.pairs
           compared == CompareAll(run[r].codes, hash_groups)
           pairs == high_similarity_pairs \o HighSimilarity(compared)
           ret == [none |-> FALSE, pairs |-> pairs, error |-> ErrNone]
       IN  /\ run' = [run EXCEPT ![r] =
                        [@ EXCEPT !.hash_groups = hash_groups,
                                  !.compared = compared,
                                  !.pairs = pairs,
                                  !.ret = ret,
                                  !.out = generate_similarity_report(run[r].exam, ret),
                                  !.pc = "done"]]
           /\ history' = Append(history, Completed(run[r], ret))
    /\ UNCHANGED <<cfg, fs, results, submitted, saver, counts, simIn, simOut, hashIn, hashOut>>

\* lines 112-129: the buckets, the comparisons of every bucket, the pairs
\* above the threshold and the return
Detect(r) ==
    /\ run[r].pc = "detect"
    /\ LET hash_groups == prefilter_codes(run[r].codes)
           high_similarity_pairs == <<>>
           compared == CompareAll(run[r].codes, hash_groups)
           pairs == high_similarity_pairs \o HighSimilarity(compared)
           ret == [none |-> FALSE, pairs |-> pairs, error |-> ErrNone]
       IN  /\ run' = [run EXCEPT ![r] =
                        [@ EXCEPT !.hash_groups = hash_groups,
                                  !.compared = compared,
                                  !.pairs = pairs,
                                  !.ret = ret,
                                  !.out = generate_similarity_report(run[r].exam, ret),
                                  !.pc = "done"]]
           /\ history' = Append(history, Completed(run[r], ret))
    /\ UNCHANGED <<cfg, fs, results, submitted, saver, counts, simIn, simOut, hashIn, hashOut>>

(***************************************************************************)
(* Files that reach plagiarism_data/<exam>/ by another way than            *)
(* save_results (copied in by hand): the listing of line 92 takes every    *)
(* file of the directory, and lines 100-109 expect files that are not      *)
(* UTF-8.                                                                  *)
(***************************************************************************)
Foreign(exam, entry) ==
    /\ fs[exam].exists
    /\ counts.foreign < cfg.maxForeign
    /\ counts' = [counts EXCEPT !.foreign = @ + 1]
    /\ LET files == fs[exam].files
       IN  IF HasFile(files, entry.name)
           THEN fs' = [fs EXCEPT ![exam].files = PutFile(files, entry)]
           ELSE \E pos \in 0..Len(files) :
                    fs' = [fs EXCEPT ![exam].files = InsertAt(files, pos, entry)]
    /\ UNCHANGED <<cfg, results, submitted, saver, run, history, simIn, simOut, hashIn, hashOut>>

(***************************************************************************)
(* The copy of the pipeline in src/app.py                                  *)
(***************************************************************************)
\* app.py lines 157-164: only the // and /* */ comments are removed
NormalizeApp(code) ==
    LET n1 == StripSpans(code, <<"/", "/">>, <<"\n">>, FALSE)
        n2 == StripSpans(n1, <<"/", "*">>, <<"*", "/">>, TRUE)
        n3 == StripSpace(n2)
    IN  ReplaceIdents(n3)

calculate_hashApp(code) == Md5(NormalizeApp(code))

\* app.py lines 169-172
RECURSIVE hash_mapApp(_, _)
hash_mapApp(codes, n) ==
    IF n = 0 THEN <<>>
    ELSE LET before == hash_mapApp(codes, n - 1)
             student == codes[n].name
             code_hash == calculate_hashApp(codes[n].text)
             at == {k \in 1..Len(before) : before[k].hash = code_hash}
         IN  IF at = {}
             THEN Append(before, [hash |-> code_hash, group |-> <<student>>])
             ELSE [before EXCEPT ![CHOOSE k \in at : TRUE].group =
                                        Append(@, student)]

\* app.py line 175
prefilter_codesApp(codes) ==
    SelectSeq(Groups(hash_mapApp(codes, Len(codes))),
              LAMBDA group : Len(group) > 1)

\* app.py line 185: [f for f in os.listdir(plagiarism_dir) if
\* f.endswith('.c')]
ListCodeFilesApp(dir) ==
    SelectSeq(Names(dir.files), LAMBDA f : EndsWith(f, DotC))

\* app.py lines 193-194: open(..., encoding='utf-8') and read, with no
\* handler: a file that is not UTF-8 raises UnicodeDecodeError
DecodeApp(file) ==
    IF file.enc = Utf8 THEN [ok |-> TRUE, text |-> file.text]
    ELSE [ok |-> FALSE, text |-> <<>>]

\* app.py lines 210-214: student.replace('.c', '')
PairRecordApp(c) ==
    [student1 |-> RemoveAll(c.file1, DotC), student2 |-> RemoveAll(c.file2, DotC),
     similarity |-> c.similarity, file1 |-> c.file1, file2 |-> c.file2]

RECURSIVE HighSimilarityApp(_)
HighSimilarityApp(compared) ==
    IF compared = <<>> THEN <<>>
    ELSE (IF AboveThreshold(Head(compared).similarity)
          THEN <<PairRecordApp(Head(compared))>> ELSE <<>>)
         \o HighSimilarityApp(Tail(compared))

\* app.py lines 180-187
StartApp(r, exam) ==
    /\ run[r].pc \in {"idle", "done", "raised"}
    /\ counts.runs < cfg.maxRuns
    /\ counts' = [counts EXCEPT !.runs = @ + 1]
    /\ LET code_files == IF fs[exam].exists THEN ListCodeFilesApp(fs[exam])
                         ELSE <<>>
           fresh == [IdleRun EXCEPT !.exam = exam, !.code_files = code_files]
       IN  IF ~fs[exam].exists \/ TooFew(code_files)
           THEN LET ret == [none |-> TRUE, pairs |-> <<>>,
                            error |-> IF fs[exam].exists THEN ErrInsufficient
                                      ELSE ErrNotFound]
                    fin == [fresh EXCEPT !.pc = "done", !.ret = ret,
                                         !.out = generate_similarity_report(exam, ret)]
                IN  /\ run' = [run EXCEPT ![r] = fin]
                    /\ history' = Append(history, Completed(fin, ret))
           ELSE /\ run' = [run EXCEPT ![r] = [fresh EXCEPT !.pc = "read_app"]]
                /\ UNCHANGED history
    /\ UNCHANGED <<cfg, fs, results, submitted, saver, simIn, simOut, hashIn, hashOut>>

\* app.py lines 191-194 for the next file of code_files: the file enters
\* codes, or UnicodeDecodeError leaves analyze_plagiarism_for_exam and
\* generate_similarity_report
ReadFileApp(r) ==
    /\ run[r].pc = "read_app"
    /\ LET file == run[r].code_files[run[r].idx + 1]
           read == DecodeApp(FileOf(fs[run[r].exam].files, file))
       IN  IF read.ok
           THEN /\ run' = [run EXCEPT ![r] =
                    [@ EXCEPT !.codes = Append(@, [name |-> file, text |-> read.text]),
                              !.idx = run[r].idx + 1,
                              !.pc = IF run[r].idx + 1 = Len(run[r].code_files)
                                     THEN "detect_app" ELSE "read_app"]]
                /\ UNCHANGED history
           ELSE LET fin == [run[r] EXCEPT !.pc = "raised",
                                          !.exc = UnicodeDecodeError]
                IN  /\ run' = [run EXCEPT ![r] = fin]
                    /\ history' = Append(history,
                                         [Completed(fin, NoRet) EXCEPT
                                             !.out = NoOut,
                                             !.exc = UnicodeDecodeError])
    /\ UNCHANGED <<cfg, fs, results, submitted, saver, counts, simIn, simOut, hashIn, hashOut>>

\* app.py lines 197-217
DetectApp(r) ==
    /\ run[r].pc = "detect_app"
    /\ LET hash_groups == prefilter_codesApp(run[r].codes)
           compared == CompareAll(run[r].codes, hash_groups)
           pairs == HighSimilarityApp(compared)
           ret == [none |-> FALSE, pairs |-> pairs, error |-> ErrNone]
       IN  /\ run' = [run EXCEPT ![r] =
                        [@ EXCEPT !.hash_groups = hash_groups,
                                  !.compared = compared,
                                  !.pairs = pairs,
                                  !.ret = ret,
                                  !.out = generate_similarity_report(run[r].exam, ret),
                                  !.pc = "done"]]
           /\ history' = Append(history, Completed(run[r], ret))
    /\ UNCHANGED <<cfg, fs, results, submitted, saver, counts, simIn, simOut, hashIn, hashOut>>

(***************************************************************************)
(* The specification of the store, save_results and the detection runs.   *)
(***************************************************************************)
TextAb == <<"a", "b">>
TextAbc == <<"a", "b", "c">>
TextOne == <<"1">>

StudentA == [id |-> <<"1">>, name |-> <<"a">>]
StudentB == [id |-> <<"2">>, name |-> <<"b">>]

NoSimIn == [code1 |-> <<>>, code2 |-> <<>>]

NoHashIn == [code |-> <<>>, renaming |-> <<>>]

PureIdle ==
    /\ simIn = NoSimIn
    /\ simOut = NoSim
    /\ hashIn = NoHashIn
    /\ hashOut = NoHash

MainCfg ==
    [texts |-> {<<>>, TextAb, TextAbc, TextOne},
     students |-> {StudentA, StudentB},
     languages |-> Languages,
     exams |-> {"e1"},
     runners |-> {"r1"},
     maxSaves |-> MaxSaves,
     maxRuns |-> MaxRuns]

Init ==
    /\ cfg = MainCfg
    /\ InitStore
    /\ PureIdle

Next ==
    \/ \E st \in cfg.students, exam \in cfg.exams, code \in cfg.texts,
          language \in cfg.languages : SaveResults(st, exam, code, language)
    \/ SaveOpen
    \/ SaveWrite
    \/ \E r \in cfg.runners, exam \in cfg.exams : Start(r, exam)
    \/ \E r \in cfg.runners : ReadFile(r)
    \/ \E r \in cfg.runners : Detect(r)

Spec == Init /\ [][Next]_vars

(***************************************************************************)
(* The scenarios of the specification's section 8: the same store and      *)
(* runs, over the texts of the scenarios.                                  *)
(***************************************************************************)
\* 'int main(){return 0;}'
TextRet0 ==
    <<"i", "n", "t", " ", "m", "a", "i", "n", "(", ")", "{", "r", "e", "t",
      "u", "r", "n", " ", "0", ";", "}">>

\* 'int main(){return 1;}'
TextRet1 ==
    <<"i", "n", "t", " ", "m", "a", "i", "n", "(", ")", "{", "r", "e", "t",
      "u", "r", "n", " ", "1", ";", "}">>

\* 'int main(){x=0;}'
TextSet0 ==
    <<"i", "n", "t", " ", "m", "a", "i", "n", "(", ")", "{", "x", "=", "0",
      ";", "}">>

\* 'int main(){x=1;}'
TextSet1 ==
    <<"i", "n", "t", " ", "m", "a", "i", "n", "(", ")", "{", "x", "=", "1",
      ";", "}">>

\* 'def f():\n    return 1\n'
TextDefF ==
    <<"d", "e", "f", " ", "f", "(", ")", ":", "\n", " ", " ", " ", " ",
      "r", "e", "t", "u", "r", "n", " ", "1", "\n">>

\* 'def g():\n    return 1\n'
TextDefG ==
    <<"d", "e", "f", " ", "g", "(", ")", ":", "\n", " ", " ", " ", " ",
      "r", "e", "t", "u", "r", "n", " ", "1", "\n">>

StudentS1 == [id |-> <<"s">>, name |-> <<"1">>]
StudentS2 == [id |-> <<"s">>, name |-> <<"2">>]

\* scenario 2: C submissions that differ in one literal
ScenCfg ==
    [texts |-> {TextRet0, TextRet1, TextSet0, TextSet1},
     students |-> {StudentS1, StudentS2},
     languages |-> {"c"},
     exams |-> {"e1"},
     runners |-> {"r1"},
     maxSaves |-> ScenSaves,
     maxRuns |-> MaxRuns]

InitScen ==
    /\ cfg = ScenCfg
    /\ InitStore
    /\ PureIdle

SpecScen == InitScen /\ [][Next]_vars

\* scenario 1: Python submissions that differ in one identifier
RenamedCfg ==
    [texts |-> {TextDefF, TextDefG, TextOne},
     students |-> {StudentS1, StudentS2},
     languages |-> {"python"},
     exams |-> {"e1"},
     runners |-> {"r1"},
     maxSaves |-> ScenSaves,
     maxRuns |-> MaxRuns]

InitRenamed ==
    /\ cfg = RenamedCfg
    /\ InitStore
    /\ PureIdle

SpecRenamed == InitRenamed /\ [][Next]_vars

(***************************************************************************)
(* Repeated runs over one store.                                           *)
(***************************************************************************)
RepeatCfg ==
    [texts |-> {TextAb, TextAbc},
     students |-> {StudentA, StudentB},
     languages |-> {"c"},
     exams |-> {"e1"},
     runners |-> {"r1"},
     maxSaves |-> RepeatSaves,
     maxRuns |-> RepeatRuns]

InitRepeat ==
    /\ cfg = RepeatCfg
    /\ InitStore
    /\ PureIdle

SpecRepeat == InitRepeat /\ [][Next]_vars

(***************************************************************************)
(* One student who submits in both languages, and a second student.        *)
(***************************************************************************)
BothCfg ==
    [texts |-> {TextAb},
     students |-> {StudentA, StudentB},
     languages |-> {"c", "python"},
     exams |-> {"e1"},
     runners |-> {"r1"},
     maxSaves |-> BothSaves,
     maxRuns |-> MaxRuns]

InitBoth ==
    /\ cfg = BothCfg
    /\ InitStore
    /\ PureIdle

SpecBoth == InitBoth /\ [][Next]_vars

(***************************************************************************)
(* The store with a file that save_results did not write, read by the      *)
(* pipeline of src/utils.py and by the copy of src/app.py.                 *)
(***************************************************************************)
\* '3_c.c'
File3 == <<"3", "_", "c", ".", "c">>

ForeignEntries ==
    {[name |-> File3, text |-> TextAb, enc |-> e] : e \in {Gbk, Binary}}

ForeignCfg ==
    [texts |-> {TextAb},
     students |-> {StudentA, StudentB},
     languages |-> {"c"},
     exams |-> {"e1"},
     runners |-> {"r1"},
     foreign |-> ForeignEntries,
     maxSaves |-> ForeignSaves,
     maxRuns |-> MaxRuns,
     maxForeign |-> ForeignFiles]

InitForeign ==
    /\ cfg = ForeignCfg
    /\ InitStore
    /\ PureIdle

NextForeign ==
    \/ Next
    \/ \E exam \in cfg.exams, entry \in cfg.foreign : Foreign(exam, entry)

SpecForeign == InitForeign /\ [][NextForeign]_vars

AppCfg == [ForeignCfg EXCEPT !.maxSaves = AppSaves]

InitApp ==
    /\ cfg = AppCfg
    /\ InitStore
    /\ PureIdle

\* save_results of src/app.py (lines 941-952) writes
\* {student_id}_{student_name}.c the way SaveResults does for "c"
NextApp ==
    \/ \E st \in cfg.students, exam \in cfg.exams, code \in cfg.texts,
          language \in cfg.languages : SaveResults(st, exam, code, language)
    \/ SaveOpen
    \/ SaveWrite
    \/ \E exam \in cfg.exams, entry \in cfg.foreign : Foreign(exam, entry)
    \/ \E r \in cfg.runners, exam \in cfg.exams : StartApp(r, exam)
    \/ \E r \in cfg.runners : ReadFileApp(r)
    \/ \E r \in cfg.runners : DetectApp(r)

SpecApp == InitApp /\ [][NextApp]_vars

(***************************************************************************)
(* plagiarism_data/ stays on disk from one session of the application to   *)
(* the next: a store that earlier calls of save_results have left.         *)
(***************************************************************************)
\* the file save_results leaves for a submission
Submission(st, language, code) ==
    [name |-> PlagiarismFile(st, language), text |-> code, enc |-> Utf8]

\* the orders in which os.listdir can yield the entries
Listings(entries) ==
    {files \in [1..Cardinality(entries) -> entries] :
        \A e \in entries : \E k \in 1..Cardinality(entries) : files[k] = e}

\* the sessions start over a store in which every exam of stored holds the
\* submissions stored[exam] of the students saved[exam]
InitStored(stored, saved) ==
    /\ fs \in [Exams -> [exists : BOOLEAN, files : UNION {Listings(stored[e]) : e \in Exams}]]
    /\ \A e \in Exams :
          /\ fs[e].exists = (stored[e] # {})
          /\ fs[e].files \in Listings(stored[e])
    /\ results = UNION {{<<st, e>> : st \in saved[e]} : e \in Exams}
    /\ submitted =
          UNION {{[student |-> st, exam |-> e, ext |-> Ext(language),
                   code |-> TextOf(fs[e].files, PlagiarismFile(st, language))] :
                  <<st, language>> \in
                      {x \in saved[e] \X {"c", "python"} :
                          HasFile(fs[e].files, PlagiarismFile(x[1], x[2]))}} :
                 e \in Exams}
    /\ saver = IdleSaver
    /\ run = [r \in Runners |-> IdleRun]
    /\ history = <<>>
    /\ counts = [saves |-> 0, runs |-> 0, foreign |-> 0]

(***************************************************************************)
(* Three submissions: near-identical texts with and without the same       *)
(* normalized content, and an unrelated one.  'x=1111' and '1' are stored; *)
(* the sessions save more.                                                 *)
(***************************************************************************)
\* 'x=1111', 'y=1111' and 'x=1112'
TextX1 == <<"x", "=", "1", "1", "1", "1">>
TextY1 == <<"y", "=", "1", "1", "1", "1">>
TextX2 == <<"x", "=", "1", "1", "1", "2">>

StudentC == [id |-> <<"3">>, name |-> <<"c">>]

ClusterCfg ==
    [texts |-> {TextX1, TextY1, TextX2, TextOne},
     students |-> {StudentA, StudentB, StudentC},
     languages |-> {"c"},
     exams |-> {"e1"},
     runners |-> {"r1"},
     maxSaves |-> ClusterSaves,
     maxRuns |-> MaxRuns]

InitCluster ==
    /\ cfg = ClusterCfg
    /\ InitStored([e \in Exams |->
                      IF e = "e1"
                      THEN {Submission(StudentA, "c", TextX1),
                            Submission(StudentC, "c", TextOne)}
                      ELSE {}],
                  [e \in Exams |->
                      IF e = "e1" THEN {StudentA, StudentC} ELSE {}])
    /\ PureIdle

SpecCluster == InitCluster /\ [][Next]_vars

(***************************************************************************)
(* Two sessions that run the detection for two assignments, each of which  *)
(* holds two stored submissions.                                           *)
(***************************************************************************)
ConcCfg ==
    [texts |-> {TextAb},
     students |-> {StudentA, StudentB},
     languages |-> {"c"},
     exams |-> Exams,
     runners |-> Runners,
     maxSaves |-> ConcSaves,
     maxRuns |-> ConcRuns]

InitConc ==
    /\ cfg = ConcCfg
    /\ InitStored([e \in Exams |->
                      {Submission(StudentA, "c", TextAb),
                       Submission(StudentB, "c", TextAb)}],
                  [e \in Exams |-> {StudentA, StudentB}])
    /\ PureIdle

SpecConc == InitConc /\ [][Next]_vars

(***************************************************************************)
(* calculate_code_similarity applied to every pair of short texts.         *)
(***************************************************************************)
PureCfg ==
    [texts |-> {}, students |-> {}, languages |-> {}, exams |-> {},
     runners |-> {}, maxSaves |-> 0, maxRuns |-> 0]

\* the strings over alphabet of length at most n
StringsUpTo(alphabet, n) ==
    UNION {[1..k -> alphabet] : k \in 0..n}

SimAlphabet == {"a", "b", "c"}

InitSim ==
    /\ cfg = PureCfg
    /\ InitStore
    /\ simIn \in [code1 : StringsUpTo(SimAlphabet, MaxSimLen),
                  code2 : StringsUpTo(SimAlphabet, MaxSimLen)]
    /\ simOut = NoSim
    /\ hashIn = NoHashIn
    /\ hashOut = NoHash

Similarity ==
    /\ ~simOut.done
    /\ simOut' = [done |-> TRUE,
                  score |-> calculate_code_similarity(simIn.code1, simIn.code2)]
    /\ UNCHANGED <<cfg, fs, results, submitted, saver, run, history, counts, simIn, hashIn, hashOut>>

NextSim == Similarity

SpecSim == InitSim /\ [][NextSim]_vars

(***************************************************************************)
(* renaming of identifiers, and calculate_hash applied to a text and to    *)
(* the renamed text                                                        *)
(***************************************************************************)
HashAlphabet == {"a", "b", "1", "_", " ", "\n", "#", "/", "*", "="}

\* the names the identifiers of a text are renamed to
NewNames == {<<"a">>, <<"b">>, <<"_", "x">>, <<"c", "1">>}

\* the identifiers of a text: its maximal runs of identifier characters
\* that start with a letter or an underscore
RECURSIVE Idents(_)
Idents(s) ==
    IF s = <<>> THEN {}
    ELSE IF IsIdentStart(s[1])
    THEN {SubSeq(s, 1, IdentTail(Tail(s)) + 1)}
            \cup Idents(Drop(s, IdentTail(Tail(s)) + 2))
    ELSE Idents(Tail(s))

\* the text with every identifier x replaced by renaming[x]
RECURSIVE Rename(_, _)
Rename(s, renaming) ==
    IF s = <<>> THEN <<>>
    ELSE IF IsIdentStart(s[1])
    THEN renaming[SubSeq(s, 1, IdentTail(Tail(s)) + 1)]
            \o Rename(Drop(s, IdentTail(Tail(s)) + 2), renaming)
    ELSE <<s[1]>> \o Rename(Tail(s), renaming)

InitHash ==
    /\ cfg = PureCfg
    /\ InitStore
    /\ simIn = NoSimIn
    /\ simOut = NoSim
    /\ \E code \in StringsUpTo(HashAlphabet, MaxHashLen) :
          \E renaming \in [Idents(code) -> NewNames] :
             hashIn = [code |-> code, renaming |-> renaming]
    /\ hashOut = NoHash

Hash ==
    /\ ~hashOut.done
    /\ hashOut' = [done |-> TRUE,
                   hash |-> calculate_hash(hashIn.code),
                   renamed |-> calculate_hash(Rename(hashIn.code, hashIn.renaming))]
    /\ UNCHANGED <<cfg, fs, results, submitted, saver, run, history, counts, simIn, simOut, hashIn>>

NextHash == Hash

SpecHash == InitHash /\ [][NextHash]_vars

(***************************************************************************)
(* Properties                                                              *)
(***************************************************************************)
Range(s) == {s[k] : k \in 1..Len(s)}

\* a call of analyze_plagiarism_for_exam has returned a pair list
Succeeded(r) == run[r].pc = "done" /\ run[r].ret.error = ErrNone

\* the comparison the run made of the submissions x and y
ComparisonsOf(r, x, y) ==
    {c \in Range(run[r].compared) : {c.file1, c.file2} = {x, y}}

\* the records the run returned for the submissions x and y
ReportsOf(r, x, y) ==
    {k \in 1..Len(run[r].ret.pairs) :
        {run[r].ret.pairs[k].file1, run[r].ret.pairs[k].file2} = {x, y}}

Exceeds80(q) == q.num > 80 * q.den

\* C1: when a run has returned its pair list, two distinct submissions of
\* it are in the list exactly when their normalized contents are equal (one
\* bucket) and the score the run computed for them is strictly greater
\* than 80; the record carries that score.
C1_Threshold ==
    \A r \in cfg.runners :
        Succeeded(r) =>
            \A k, l \in 1..Len(run[r].codes) :
                k < l =>
                    LET x == run[r].codes[k]
                        y == run[r].codes[l]
                        score == calculate_code_similarity(x.text, y.text)
                        listed == ReportsOf(r, x.name, y.name)
                    IN  /\ listed # {}
                            <=> /\ Normalize(x.text) = Normalize(y.text)
                                /\ Exceeds80(score)
                        /\ \A n \in listed :
                              run[r].ret.pairs[n].similarity = score

\* a run compared two submissions of one bucket whose score is exactly 80
\* and returned no pair
C1_Witness ==
    \E r \in cfg.runners :
        /\ Succeeded(r)
        /\ \E c \in Range(run[r].compared) : c.similarity = [num |-> 80, den |-> 1]
        /\ run[r].ret.pairs = <<>>

C4_NoSelfPair ==
    \A r \in cfg.runners :
        Succeeded(r) =>
            \A p \in Range(run[r].ret.pairs) : p.student1 # p.student2

\* C5: the returned list holds no unordered pair of identifiers twice.
C5_NoRepeat ==
    \A r \in cfg.runners :
        Succeeded(r) =>
            \A k, l \in 1..Len(run[r].ret.pairs) :
                k # l =>
                    {run[r].ret.pairs[k].student1, run[r].ret.pairs[k].student2}
                        # {run[r].ret.pairs[l].student1, run[r].ret.pairs[l].student2}

\* C6: two submissions of a run whose normalized contents are equal are in
\* one bucket of prefilter_codes and the run computes their score.
C6_SameBucket ==
    \A r \in cfg.runners :
        Succeeded(r) =>
            \A k, l \in 1..Len(run[r].codes) :
                (k < l /\ Normalize(run[r].codes[k].text)
                            = Normalize(run[r].codes[l].text))
                    => /\ \E g \in Range(run[r].hash_groups) :
                            {run[r].codes[k].name, run[r].codes[l].name}
                                \subseteq Range(g)
                       /\ ComparisonsOf(r, run[r].codes[k].name,
                                        run[r].codes[l].name) # {}

\* a run compared two submissions whose texts differ and whose normalized
\* contents are equal
C6_Witness ==
    \E r \in cfg.runners :
        /\ Succeeded(r)
        /\ \E k, l \in 1..Len(run[r].codes) :
              /\ k < l
              /\ run[r].codes[k].text # run[r].codes[l].text
              /\ Normalize(run[r].codes[k].text) = Normalize(run[r].codes[l].text)
              /\ ComparisonsOf(r, run[r].codes[k].name, run[r].codes[l].name) # {}

\* C2: the score does not depend on the order of the two texts.
C2_Symmetric ==
    simOut.done
        => simOut.score = calculate_code_similarity(simIn.code2, simIn.code1)

\* C7: the hash of a text is the hash of the text with its identifiers
\* renamed, so both fall in the same bucket.
C7_RenamingKeepsHash ==
    hashOut.done => hashOut.renamed = hashOut.hash

\* a text with identifiers, each renamed to another name, has been hashed
\* together with the renamed text
C7_Witness ==
    /\ hashOut.done
    /\ Idents(hashIn.code) # {}
    /\ \A x \in Idents(hashIn.code) : hashIn.renaming[x] # x
    /\ hashOut.renamed = hashOut.hash

\* two submissions of the run with the normalized content of x and of y
SharesBucket(r, x, y) ==
    \E g \in Range(run[r].hash_groups) : {x, y} \subseteq Range(g)

\* C8 as stated: 'int main(){return 0;}' and 'int main(){return 1;}' get
\* different hashes, share no bucket, are not compared and not reported.
C8_LiteralSplits ==
    \A r \in cfg.runners :
        Succeeded(r) =>
            \A k, l \in 1..Len(run[r].codes) :
                (run[r].codes[k].text = TextRet0 /\ run[r].codes[l].text = TextRet1)
                    => LET x == run[r].codes[k]
                           y == run[r].codes[l]
                       IN  /\ calculate_hash(x.text) # calculate_hash(y.text)
                           /\ ~SharesBucket(r, x.name, y.name)
                           /\ ComparisonsOf(r, x.name, y.name) = {}
                           /\ ReportsOf(r, x.name, y.name) = {}

\* C8: 'int main(){x=0;}' and 'int main(){x=1;}' keep their digit: they
\* get different hashes, share no bucket, are not compared and not
\* reported.  'int main(){return 0;}' and 'int main(){return 1;}' lose it:
\* both normalize to 'var(){var;}', share a bucket, are compared and are
\* reported with the score 2000/21.
C8_DigitAfterIdentifier ==
    \A r \in cfg.runners :
        Succeeded(r) =>
            \A k, l \in 1..Len(run[r].codes) :
                LET x == run[r].codes[k]
                    y == run[r].codes[l]
                IN  /\ (x.text = TextSet0 /\ y.text = TextSet1)
                          => /\ calculate_hash(x.text) # calculate_hash(y.text)
                             /\ ~SharesBucket(r, x.name, y.name)
                             /\ ComparisonsOf(r, x.name, y.name) = {}
                             /\ ReportsOf(r, x.name, y.name) = {}
                    /\ (x.text = TextRet0 /\ y.text = TextRet1)
                          => /\ Normalize(x.text)
                                  = <<"v", "a", "r", "(", ")", "{", "v", "a", "r", ";", "}">>
                             /\ calculate_hash(x.text) = calculate_hash(y.text)
                             /\ SharesBucket(r, x.name, y.name)
                             /\ ComparisonsOf(r, x.name, y.name) # {}
                             /\ \E n \in ReportsOf(r, x.name, y.name) :
                                   /\ run[r].ret.pairs[n].similarity
                                        = [num |-> 2000, den |-> 21]
                                   /\ Exceeds80(run[r].ret.pairs[n].similarity)

\* a run over the two 'return' texts has reported them
C8_Witness ==
    \E r \in cfg.runners :
        /\ Succeeded(r)
        /\ \E k, l \in 1..Len(run[r].codes) :
              /\ run[r].codes[k].text = TextRet0
              /\ run[r].codes[l].text = TextRet1
              /\ ReportsOf(r, run[r].codes[k].name, run[r].codes[l].name) # {}

FileS1 == <<"s", "_", "1", ".", "p", "y">>
FileS2 == <<"s", "_", "2", ".", "p", "y">>

\* the run read exactly the submissions of scenario 1
ReadScenario1(r) ==
    /\ Len(run[r].codes) = 2
    /\ Range(run[r].codes) = {[name |-> FileS1, text |-> TextDefF],
                              [name |-> FileS2, text |-> TextDefG]}

\* C9: a run over {s_1.py: 'def f():\n    return 1\n', s_2.py: 'def g():\n
\* return 1\n'} finds one hash for both, a score above 80, and returns
\* exactly the one pair of s_1 and s_2.
C9_RenamedPair ==
    \A r \in cfg.runners :
        (Succeeded(r) /\ ReadScenario1(r))
            => /\ calculate_hash(TextDefF) = calculate_hash(TextDefG)
               /\ Len(run[r].ret.pairs) = 1
               /\ {run[r].ret.pairs[1].student1, run[r].ret.pairs[1].student2}
                    = {<<"s", "_", "1">>, <<"s", "_", "2">>}
               /\ Exceeds80(run[r].ret.pairs[1].similarity)

\* a run over the submissions of scenario 1 has returned
C9_Witness ==
    \E r \in cfg.runners :
        /\ Succeeded(r)
        /\ ReadScenario1(r)
        /\ run[r].ret.pairs # <<>>

\* the identifier-to-text map of a completed run
Mapping(h) == {<<c.name, c.text>> : c \in Range(h.codes)}

\* the returned records, without the annotation
Reported(h) ==
    [k \in 1..Len(h.ret.pairs) |->
        [student1 |-> h.ret.pairs[k].student1,
         student2 |-> h.ret.pairs[k].student2,
         similarity |-> h.ret.pairs[k].similarity]]

Occurrences(s, x) == Cardinality({k \in 1..Len(s) : s[k] = x})

\* the same records, each as often, in any order
SameRecords(s, t) ==
    /\ Len(s) = Len(t)
    /\ \A x \in Range(s) \cup Range(t) : Occurrences(s, x) = Occurrences(t, x)

\* two completed runs of one assignment that returned a pair list and
\* read the same identifier-to-text map
SameInput(m, n) ==
    /\ m < n
    /\ history[m].exam = history[n].exam
    /\ history[m].ret.error = ErrNone
    /\ history[n].ret.error = ErrNone
    /\ Mapping(history[m]) = Mapping(history[n])

IsPy(file) == EndsWith(file, DotPy)
IsC(file) == EndsWith(file, DotC)

CrossKind(x, y) == (IsPy(x) /\ IsC(y)) \/ (IsC(x) /\ IsPy(y))

\* C11: no run computes a score, or reports a pair, for one submission of
\* kind .py and one of kind .c.
C11_NoCrossKind ==
    \A r \in cfg.runners :
        Succeeded(r) =>
            /\ \A c \in Range(run[r].compared) : ~CrossKind(c.file1, c.file2)
            /\ \A p \in Range(run[r].ret.pairs) : ~CrossKind(p.file1, p.file2)

\* the keys of the submission map of the run
KeysOf(r) == {run[r].codes[k].name : k \in 1..Len(run[r].codes)}

\* C12: each of the two identifiers of a reported pair is a key of the
\* submission map of the run.
C12_OriginalKeys ==
    \A r \in cfg.runners :
        Succeeded(r) =>
            \A p \in Range(run[r].ret.pairs) :
                p.student1 \in KeysOf(r) /\ p.student2 \in KeysOf(r)


\* the call of the session has ended, with a return or an exception
Ended(r) == run[r].pc \in {"done", "raised"}

\* C13: every call ends in one of two outcomes, a pair list with no
\* error or the insufficient-submissions error with no pairs; there is no
\* other error and no exception.
C13_TwoOutcomes ==
    \A r \in cfg.runners :
        Ended(r) =>
            /\ run[r].pc = "done"
            /\ run[r].exc = ExcNone
            /\ \/ run[r].ret.error = ErrNone /\ ~run[r].ret.none
               \/ /\ run[r].ret.error = ErrInsufficient
                  /\ run[r].ret.none
                  /\ run[r].ret.pairs = <<>>

\* C14: a call for an assignment that has a directory and fewer than two
\* submissions that could be read returns the insufficient-submissions
\* error and no pair list, also when two or more code files were listed.
C14_InsufficientWhenUndecodable ==
    \A r \in cfg.runners :
        (run[r].pc = "done" /\ run[r].ret.error # ErrNotFound
                           /\ Len(run[r].codes) < 2)
            => /\ run[r].ret.error = ErrInsufficient
               /\ run[r].ret.none

\* the listed files of the run that decode neither as UTF-8 nor as GBK
Undecodable(r) ==
    {f \in Range(run[r].code_files) :
        FileOf(fs[run[r].exam].files, f).enc = Binary}

\* C15: a call that listed two or more files, one of which cannot be
\* decoded, returns a pair list and no error; the file is no key of the
\* submission map and in no reported pair, and the submissions that were
\* read and share a bucket are compared.
C15_UndecodableExcluded ==
    \A r \in cfg.runners :
        (Ended(r) /\ Len(run[r].code_files) >= 2 /\ Undecodable(r) # {})
            => /\ run[r].pc = "done"
               /\ run[r].exc = ExcNone
               /\ run[r].ret.error = ErrNone
               /\ \A f \in Undecodable(r) :
                     /\ f \notin KeysOf(r)
                     /\ \A p \in Range(run[r].ret.pairs) :
                           p.file1 # f /\ p.file2 # f
               /\ \A x, y \in KeysOf(r) :
                     (x # y /\ Normalize(TextOf(run[r].codes, x))
                                = Normalize(TextOf(run[r].codes, y)))
                         => ComparisonsOf(r, x, y) # {}


\* the raw score of the k-th and the l-th submission of the run, in both
\* orders of the arguments
ScoreOf(r, k, l) ==
    calculate_code_similarity(run[r].codes[k].text, run[r].codes[l].text)

NearIdentical(r, k, l) ==
    Exceeds80(ScoreOf(r, k, l)) /\ Exceeds80(ScoreOf(r, l, k))

Unrelated(r, k, l) ==
    ~Exceeds80(ScoreOf(r, k, l)) /\ ~Exceeds80(ScoreOf(r, l, k))

\* the run read three submissions: k and l near-identical, m unrelated to
\* both
Cluster(r, k, l, m) ==
    /\ Len(run[r].codes) = 3
    /\ {k, l, m} = {1, 2, 3}
    /\ NearIdentical(r, k, l)
    /\ Unrelated(r, m, k)
    /\ Unrelated(r, m, l)

OnlyPair(r, k, l) ==
    /\ Len(run[r].ret.pairs) = 1
    /\ {run[r].ret.pairs[1].file1, run[r].ret.pairs[1].file2}
            = {run[r].codes[k].name, run[r].codes[l].name}

\* C16 as stated: of three submissions, two with a raw score above 80 and
\* one unrelated, exactly the pair of the two is reported.
C16_ClusterOnePair ==
    \A r \in cfg.runners :
        Succeeded(r) =>
            \A k, l, m \in 1..3 : Cluster(r, k, l, m) => OnlyPair(r, k, l)

\* C16: of three submissions, two with a raw score above 80 and the same
\* normalized content and one unrelated, exactly the pair of the two is
\* reported; two near-identical submissions whose normalized contents
\* differ are not reported.
C16_ClusterSameHash ==
    \A r \in cfg.runners :
        Succeeded(r) =>
            \A k, l, m \in 1..3 :
                Cluster(r, k, l, m) =>
                    IF Normalize(run[r].codes[k].text) = Normalize(run[r].codes[l].text)
                    THEN OnlyPair(r, k, l)
                    ELSE run[r].ret.pairs = <<>>

\* a run over 'x=1111', 'y=1111' and '1' has reported one pair
C16_Witness ==
    \E r \in cfg.runners :
        /\ Succeeded(r)
        /\ \E k, l, m \in 1..3 :
              /\ Cluster(r, k, l, m)
              /\ Normalize(run[r].codes[k].text) = Normalize(run[r].codes[l].text)
              /\ run[r].codes[k].text # run[r].codes[l].text
              /\ OnlyPair(r, k, l)

\* the keys of the run that have the hash of the key x
BucketOf(r, x) ==
    {y \in KeysOf(r) :
        calculate_hash(TextOf(run[r].codes, y)) = calculate_hash(TextOf(run[r].codes, x))}

\* C20: every pair the run scores, and every pair it reports, is of two
\* submissions with the same hash, and a submission whose hash no other
\* submission of the run has is in no scored and no reported pair.
C20_WithinBucket ==
    \A r \in cfg.runners :
        Succeeded(r) =>
            /\ \A c \in Range(run[r].compared) : c.file2 \in BucketOf(r, c.file1)
            /\ \A p \in Range(run[r].ret.pairs) : p.file2 \in BucketOf(r, p.file1)
            /\ \A x \in KeysOf(r) :
                  BucketOf(r, x) = {x}
                      => /\ \A c \in Range(run[r].compared) :
                               c.file1 # x /\ c.file2 # x
                         /\ \A p \in Range(run[r].ret.pairs) :
                               p.file1 # x /\ p.file2 # x

\* a run over three submissions has reported the pair of one bucket and
\* left out the submission that is alone in its bucket
C20_Witness ==
    \E r \in cfg.runners :
        /\ Succeeded(r)
        /\ Len(run[r].codes) = 3
        /\ run[r].ret.pairs # <<>>
        /\ \E x \in KeysOf(r) :
              /\ BucketOf(r, x) = {x}
              /\ \A p \in Range(run[r].ret.pairs) : p.file1 # x /\ p.file2 # x


\* the common contiguous blocks of a[alo:ahi] and b[blo:bhi]: a block
\* <<i, j, k>> is k equal elements from a[i] and b[j] on (0-based)
CommonBlocks(a, b, alo, ahi, blo, bhi) ==
    {blk \in (alo..(ahi - 1)) \X (blo..(bhi - 1)) \X (1..(ahi - alo)) :
        /\ blk[1] + blk[3] <= ahi
        /\ blk[2] + blk[3] <= bhi
        /\ \A d \in 0..(blk[3] - 1) : a[blk[1] + d + 1] = b[blk[2] + d + 1]}

\* the longest common block; of several, the one that starts earliest in
\* a and, of those, the one that starts earliest in b
LongestBlock(blocks) ==
    CHOOSE x \in blocks :
        \A y \in blocks :
            \/ x[3] > y[3]
            \/ x[3] = y[3] /\ x[1] < y[1]
            \/ x[3] = y[3] /\ x[1] = y[1] /\ x[2] <= y[2]

\* the greedy matcher: the longest common block, then the same to its
\* left and to its right; the total length of the blocks
RECURSIVE GreedyTotal(_, _, _, _, _, _)
GreedyTotal(a, b, alo, ahi, blo, bhi) ==
    LET blocks == CommonBlocks(a, b, alo, ahi, blo, bhi)
        x == LongestBlock(blocks)
    IN  IF blocks = {} THEN 0
        ELSE x[3] + GreedyTotal(a, b, alo, x[1], blo, x[2])
                  + GreedyTotal(a, b, x[1] + x[3], ahi, x[2] + x[3], bhi)

RECURSIVE ReadOf(_, _)
ReadOf(files, names) ==
    IF names = <<>> THEN <<>>
    ELSE LET read == Decode(FileOf(files, Head(names)))
         IN  (IF read.ok THEN <<[name |-> Head(names), text |-> read.text]>>
              ELSE <<>>) \o ReadOf(files, Tail(names))

\* what a call returns for dir when it runs alone
AloneRet(dir) ==
    IF ~dir.exists
    THEN [none |-> TRUE, pairs |-> <<>>, error |-> ErrNotFound]
    ELSE IF Len(ListCodeFiles(dir)) < 2
    THEN [none |-> TRUE, pairs |-> <<>>, error |-> ErrInsufficient]
    ELSE LET codes == ReadOf(dir.files, ListCodeFiles(dir))
         IN  [none |-> FALSE,
              pairs |-> HighSimilarity(CompareAll(codes, prefilter_codes(codes))),
              error |-> ErrNone]

\* the store of the assignment of the run is as the run found it
StoreAsRead(r) ==
    LET dir == fs[run[r].exam]
    IN  /\ dir.exists <=> run[r].ret.error # ErrNotFound
        /\ dir.exists => run[r].code_files = ListCodeFiles(dir)
        /\ run[r].ret.error = ErrNone
              => run[r].codes = ReadOf(dir.files, ListCodeFiles(dir))

\* C18: whatever the other session's run did in between, a run that has
\* returned, over a store that is as it found it, has returned what a
\* run alone returns for that store.
C18_Isolated ==
    \A r \in cfg.runners :
        (run[r].pc = "done" /\ StoreAsRead(r))
            => run[r].ret = AloneRet(fs[run[r].exam])

\* the two sessions have run the detection for different assignments and
\* both have returned a pair
C18_Witness ==
    \E r, q \in cfg.runners :
        /\ r # q
        /\ Succeeded(r) /\ Succeeded(q)
        /\ run[r].exam # run[q].exam
        /\ StoreAsRead(r) /\ StoreAsRead(q)
        /\ run[r].ret.pairs # <<>> /\ run[q].ret.pairs # <<>>

\* the m-th and the n-th completed run are of one assignment and found
\* the same store: the directory there or not (line 89), the same files
\* listed and the same texts read
SameStore(m, n) ==
    /\ m < n
    /\ history[m].exam = history[n].exam
    /\ (history[m].ret.error = ErrNotFound) <=> (history[n].ret.error = ErrNotFound)
    /\ history[m].code_files = history[n].code_files
    /\ history[m].codes = history[n].codes

\* two completed runs that found the same store returned the same
RerunSame ==
    \A m, n \in 1..Len(history) :
        SameStore(m, n)
            => /\ history[m].ret = history[n].ret
               /\ history[m].out = history[n].out

\* C19: a step of a detection run leaves every stored submission and
\* every result file as it is, and a run over the same store returns the
\* same as the run before.
C19_SideEffectFree ==
    [][/\ (run' # run) => (fs' = fs /\ results' = results)
       /\ RerunSame']_vars

\* the detection has run twice over the same two submissions and has
\* returned a pair both times
C19_Witness ==
    \E m, n \in 1..Len(history) :
        /\ SameStore(m, n)
        /\ Len(history[m].codes) >= 2
        /\ history[n].ret.pairs # <<>>
        /\ history[n].out.report.total_pairs = Len(history[m].ret.pairs)

(***************************************************************************)
(* C21: the comment passes and the source kind                             *)
(***************************************************************************)
\* the comment stripping that depends on the source kind: the // and /* */
\* passes for a C-like text, the # and triple-quote passes for a Python text
StripByKind(code, kind) ==
    IF kind = "python"
    THEN LET n1 == StripSpans(code, <<"#">>, <<"\n">>, FALSE)
             n2 == StripSpans(n1, <<"'", "'", "'">>, <<"'", "'", "'">>, TRUE)
         IN  StripSpans(n2, <<"\"", "\"", "\"">>, <<"\"", "\"", "\"">>, TRUE)
    ELSE LET n1 == StripSpans(code, <<"/", "/">>, <<"\n">>, FALSE)
         IN  StripSpans(n1, <<"/", "*">>, <<"*", "/">>, TRUE)

\* C21: the hash of a text is the digest of the text stripped of the
\* comments of its source kind only, then of its whitespace, with its
\* identifiers replaced: for a C-like submission the # and triple-quote
\* passes do not act, for a Python submission the // and /* */ passes do
\* not act.  calculate_hash receives the text alone, so the hash it returns
\* is the hash of the text under either kind.
C21_KindStripping ==
    hashOut.done =>
        \A kind \in {"c", "python"} :
            hashOut.hash = Md5(ReplaceIdents(StripSpace(StripByKind(hashIn.code, kind))))

(***************************************************************************)
(* calculate_hash applied to two texts that differ only inside one comment *)
(***************************************************************************)
MaxCommentLen == 2

CommentAlphabet == {"a", "1", "#"}

\* the comment forms: a line comment up to its newline, a line comment on a
\* last line without newline (close is empty), the spans
LineComments ==
    {[open |-> o, close |-> c] : o \in {<<"#">>, <<"/", "/">>},
                                 c \in {<<"\n">>, <<>>}}

SpanComments ==
    {[open |-> <<"/", "*">>, close |-> <<"*", "/">>],
     [open |-> <<"'", "'", "'">>, close |-> <<"'", "'", "'">>],
     [open |-> <<"\"", "\"", "\"">>, close |-> <<"\"", "\"", "\"">>]}

\* the code before and after the comment
CodeBefore == {<<>>, <<"1", "\n">>}
CodeAfter == {<<>>, <<"2">>}

InitComment ==
    /\ cfg = PureCfg
    /\ InitStore
    /\ simIn = NoSimIn
    /\ simOut = NoSim
    /\ \E form \in LineComments \cup SpanComments :
       \E before \in CodeBefore, after \in CodeAfter :
       \E in1, in2 \in StringsUpTo(CommentAlphabet, MaxCommentLen) :
          /\ form.close = <<>> => after = <<>>
          /\ hashIn = [form |-> form,
                       code |-> before \o form.open \o in1 \o form.close \o after,
                       other |-> before \o form.open \o in2 \o form.close \o after]
    /\ hashOut = NoHash

HashComment ==
    /\ ~hashOut.done
    /\ hashOut' = [done |-> TRUE,
                   hash |-> calculate_hash(hashIn.code),
                   other |-> calculate_hash(hashIn.other)]
    /\ UNCHANGED <<cfg, fs, results, submitted, saver, run, history, counts, simIn, simOut, hashIn>>

NextComment == HashComment

SpecComment == InitComment /\ [][NextComment]_vars

(***************************************************************************)
(* C22                                                                     *)
(***************************************************************************)
\* C22: two texts that differ only in the text inside one comment (a // or
\* # comment up to the end of its line, with or without a terminating
\* newline on the last line, a /* */ span, a triple-quoted span) get the
\* same normalized content and the same hash.
C22_CommentTextIgnored ==
    hashOut.done => hashOut.hash = hashOut.other

(***************************************************************************)
(* Resubmission: two students whose submissions are stored save again      *)
(* while the detection runs.                                               *)
(***************************************************************************)
ResubmitSaves == 2

ResubmitCfg ==
    [texts |-> {TextAb, TextAbc},
     students |-> {StudentA, StudentB},
     languages |-> {"c"},
     exams |-> {"e1"},
     runners |-> {"r1"},
     maxSaves |-> ResubmitSaves,
     maxRuns |-> MaxRuns]

InitResubmit ==
    /\ cfg = ResubmitCfg
    /\ InitStored([e \in Exams |->
                      IF e = "e1"
                      THEN {Submission(StudentA, "c", TextAb),
                            Submission(StudentB, "c", TextAb)}
                      ELSE {}],
                  [e \in Exams |-> IF e = "e1" THEN {StudentA, StudentB} ELSE {}])
    /\ PureIdle

SpecResubmit == InitResubmit /\ [][Next]_vars

(***************************************************************************)
(* C23                                                                     *)
(***************************************************************************)
Score100 == [num |-> 100, den |-> 1]

\* C23: when a run has returned its pair list, two submissions of it whose
\* raw texts are identical are in the list with the score 100, whatever
\* the text, the empty text included.
C23_IdenticalReported ==
    \A r \in cfg.runners :
        Succeeded(r) =>
            \A k, l \in 1..Len(run[r].codes) :
                (k < l /\ run[r].codes[k].text = run[r].codes[l].text) =>
                    \E n \in ReportsOf(r, run[r].codes[k].name, run[r].codes[l].name) :
                        run[r].ret.pairs[n].similarity = Score100

\* a run has read two submissions that were both empty when it read them
\* and has returned them as a pair with the score 100
C23_Witness ==
    \E r \in cfg.runners :
        /\ Succeeded(r)
        /\ Len(run[r].codes) = 2
        /\ run[r].codes[1].text = <<>>
        /\ run[r].codes[2].text = <<>>
        /\ Len(run[r].ret.pairs) = 1
        /\ run[r].ret.pairs[1].similarity = Score100

(***************************************************************************)
(* C24                                                                     *)
(***************************************************************************)
\* the place of the file in the listing the run enumerated
PlaceOf(r, file) ==
    CHOOSE k \in 1..Len(run[r].code_files) : run[r].code_files[k] = file

\* C24: in every pair a run returns, the first identifier is that of the
\* submission the run enumerated earlier and the second that of the one it
\* enumerated later.
C24_EarlierFirst ==
    \A r \in cfg.runners :
        Succeeded(r) =>
            \A n \in 1..Len(run[r].ret.pairs) :
                LET pair == run[r].ret.pairs[n]
                IN  /\ PlaceOf(r, pair.file1) < PlaceOf(r, pair.file2)
                    /\ pair.student1 = StripExt(pair.file1)
                    /\ pair.student2 = StripExt(pair.file2)

\* a run enumerated 2_b.c before 1_a.c and returned the pair (2_b, 1_a)
C24_Witness ==
    \E r \in cfg.runners :
        /\ Succeeded(r)
        /\ run[r].code_files = <<PlagiarismFile(StudentB, "c"), PlagiarismFile(StudentA, "c")>>
        /\ Len(run[r].ret.pairs) = 1
        /\ run[r].ret.pairs[1].student1 = <<"2", "_", "b">>
        /\ run[r].ret.pairs[1].student2 = <<"1", "_", "a">>

(***************************************************************************)
(* C25                                                                     *)
(***************************************************************************)
\* C25: generate_similarity_report returns a report or an error and never
\* both.  When the analysis returned a pair list, the report is there with
\* no error, its exam_name is the requested assignment, its pair list is
\* the list the analysis returned and total_pairs is the length of that
\* list; when the analysis returned an error, the report is absent and the
\* error returned is that error.
C25_ReportOrError ==
    \A k \in 1..Len(history) :
        LET h == history[k]
        IN  /\ h.out.none <=> (h.out.error # ErrNone)
            /\ h.ret.error = ErrNone =>
                  /\ ~h.out.none
                  /\ h.out.report.exam_name = h.exam
                  /\ h.out.report.high_similarity_pairs = h.ret.pairs
                  /\ h.out.report.total_pairs = Len(h.ret.pairs)
            /\ h.ret.error # ErrNone =>
                  /\ h.out.none
                  /\ h.out.error = h.ret.error

\* one call has returned the not-found error without a report, and a later
\* call a report with one pair and no error
C25_Witness ==
    \E k, l \in 1..Len(history) :
        /\ k < l
        /\ history[k].ret.error = ErrNotFound
        /\ history[k].out.none
        /\ history[k].out.error = ErrNotFound
        /\ ~history[l].out.none
        /\ history[l].out.error = ErrNone
        /\ history[l].out.report.total_pairs = 1

(***************************************************************************)
(* Two assignments that hold the same two submissions, each directory      *)
(* listed in an order of its own.                                          *)
(***************************************************************************)
OrderSaves == 1
OrderRuns == 2

\* 'babaaa' and 'bbaaba': one identifier each
TextBabaaa == <<"b", "a", "b", "a", "a", "a">>
TextBbaaba == <<"b", "b", "a", "a", "b", "a">>

OrderCfg ==
    [texts |-> {TextBabaaa, TextBbaaba},
     students |-> {StudentA, StudentB},
     languages |-> {"c"},
     exams |-> Exams,
     runners |-> {"r1"},
     maxSaves |-> OrderSaves,
     maxRuns |-> OrderRuns]

InitOrder ==
    /\ cfg = OrderCfg
    /\ InitStored([e \in Exams |->
                      {Submission(StudentA, "c", TextBabaaa),
                       Submission(StudentB, "c", TextBbaaba)}],
                  [e \in Exams |-> {StudentA, StudentB}])
    /\ PureIdle

SpecOrder == InitOrder /\ [][Next]_vars

(***************************************************************************)
(* C26                                                                     *)
(***************************************************************************)
\* the identifier-to-text map a completed run read
MapOf(h) == {<<h.codes[k].name, h.codes[k].text>> : k \in 1..Len(h.codes)}

\* the unordered pairs a completed run returned, each with its score
UnorderedPairs(h) ==
    {[files |-> {h.ret.pairs[k].file1, h.ret.pairs[k].file2},
      similarity |-> h.ret.pairs[k].similarity] : k \in 1..Len(h.ret.pairs)}

\* C26: two runs that read the same identifier-to-text map, in whatever
\* order each enumerated it, return the same set of unordered pairs with
\* the same score for each pair.
C26_OrderFree ==
    \A m, n \in 1..Len(history) :
        (/\ history[m].ret.error = ErrNone
         /\ history[n].ret.error = ErrNone
         /\ MapOf(history[m]) = MapOf(history[n]))
            => UnorderedPairs(history[m]) = UnorderedPairs(history[n])

(***************************************************************************)
(* C27                                                                     *)
(***************************************************************************)
\* the stored keys a run reported, each with the identifier it was
\* reported under
ReportedAs(r) ==
    UNION {{<<run[r].ret.pairs[k].file1, run[r].ret.pairs[k].student1>>,
            <<run[r].ret.pairs[k].file2, run[r].ret.pairs[k].student2>>} :
           k \in 1..Len(run[r].ret.pairs)}

\* C27: within a run, two different stored submissions are never reported
\* under the same identifier.
C27_IdentifierInjective ==
    \A r \in cfg.runners :
        Succeeded(r) =>
            \A x, y \in ReportedAs(r) : x[2] = y[2] => x[1] = y[1]

(***************************************************************************)
(* Two students whose id and name join to the same file name: id '1' with  *)
(* name 'a_b', and id '1_a' with name 'b'.  The first and a third student  *)
(* have stored submissions; the sessions save more.                        *)
(***************************************************************************)
CollideSaves == 1

Student1 == [id |-> <<"1">>, name |-> <<"a", "_", "b">>]
Student1a == [id |-> <<"1", "_", "a">>, name |-> <<"b">>]

CollideCfg ==
    [texts |-> {TextAb, TextAbc},
     students |-> {Student1, Student1a, StudentB},
     languages |-> {"c"},
     exams |-> {"e1"},
     runners |-> {"r1"},
     maxSaves |-> CollideSaves,
     maxRuns |-> MaxRuns]

InitCollide ==
    /\ cfg = CollideCfg
    /\ InitStored([e \in Exams |->
                      IF e = "e1"
                      THEN {Submission(Student1, "c", TextAb),
                            Submission(StudentB, "c", TextAb)}
                      ELSE {}],
                  [e \in Exams |-> IF e = "e1" THEN {Student1, StudentB} ELSE {}])
    /\ PureIdle

SpecCollide == InitCollide /\ [][Next]_vars

(***************************************************************************)
(* C28                                                                     *)
(***************************************************************************)
\* the file save_results writes for the student and extension of a call
StoredName(c) ==
    c.student.id \o <<"_">> \o c.student.name
        \o (IF c.ext = "py" THEN DotPy ELSE DotC)

\* the run of r reads its next file and no call of save_results is under way
ReadsAfterSaves(r) ==
    /\ run[r].pc = "read"
    /\ run'[r] # run[r]
    /\ saver.pc = "idle"

\* C28: after the calls of save_results made so far, a run reads, for each
\* (student id, student name, extension) that submitted for its exam,
\* exactly the code of the most recent call of save_results for that key,
\* and that text is what it scores.
C28_LatestSave ==
    [][\A r \in cfg.runners :
          ReadsAfterSaves(r) =>
              LET file == run[r].code_files[run[r].idx + 1]
              IN  \A c \in submitted :
                      (c.exam = run[r].exam /\ StoredName(c) = file) =>
                          run'[r].codes =
                              Append(run[r].codes, [name |-> file, text |-> c.code])]_vars

(***************************************************************************)
(* C29                                                                     *)
(***************************************************************************)
\* C29: a run that interleaves with calls of save_results for its
\* assignment reads, for every submission, a text as a call stored it,
\* the one before the call or the one after it, never a truncated or
\* partly written text; its result is then that of a run over the
\* submissions before or after the call.  Every text stored or saved in
\* the behaviour is one of cfg.texts.
C29_NoTornRead ==
    \A k \in 1..Len(history) :
        \A n \in 1..Len(history[k].codes) :
            history[k].codes[n].text \in cfg.texts

(***************************************************************************)
(* The two copies of the pipeline over one store of .c submissions: the    *)
(* session r1 runs analyze_plagiarism_for_exam of src/utils.py, the        *)
(* session r2 the one of src/app.py.                                       *)
(***************************************************************************)
CopySaves == 1
CopyRuns == 2

\* '#1\nabcd' and '#2\nabcd'
TextHash1 == <<"#", "1", "\n", "a", "b", "c", "d">>
TextHash2 == <<"#", "2", "\n", "a", "b", "c", "d">>

CopyCfg ==
    [texts |-> {TextHash1, TextHash2},
     students |-> {StudentA, StudentB},
     languages |-> {"c"},
     exams |-> {"e1"},
     runners |-> Runners,
     maxSaves |-> CopySaves,
     maxRuns |-> CopyRuns]

InitCopies ==
    /\ cfg = CopyCfg
    /\ InitStored([e \in Exams |->
                      IF e = "e1"
                      THEN {Submission(StudentA, "c", TextHash1),
                            Submission(StudentB, "c", TextHash2)}
                      ELSE {}],
                  [e \in Exams |-> IF e = "e1" THEN {StudentA, StudentB} ELSE {}])
    /\ PureIdle

NextCopies ==
    \/ \E st \in cfg.students, exam \in cfg.exams, code \in cfg.texts,
          language \in cfg.languages : SaveResults(st, exam, code, language)
    \/ SaveOpen
    \/ SaveWrite
    \/ \E exam \in cfg.exams : Start("r1", exam)
    \/ ReadFile("r1")
    \/ Detect("r1")
    \/ \E exam \in cfg.exams : StartApp("r2", exam)
    \/ ReadFileApp("r2")
    \/ DetectApp("r2")

SpecCopies == InitCopies /\ [][NextCopies]_vars

(***************************************************************************)
(* C30                                                                     *)
(***************************************************************************)
\* C30: over the same .c submissions, read in the same order, the copy of
\* src/utils.py (r1) and the copy of src/app.py (r2) form the same buckets
\* and return the same set of pairs with the same scores.
C30_CopiesAgree ==
    (/\ run["r1"].pc = "done"
     /\ run["r2"].pc = "done"
     /\ run["r1"].ret.error = ErrNone
     /\ run["r2"].ret.error = ErrNone
     /\ run["r1"].codes = run["r2"].codes)
        => /\ run["r1"].hash_groups = run["r2"].hash_groups
           /\ UnorderedPairs(run["r1"]) = UnorderedPairs(run["r2"])

====
